---- MODULE Spec2Model ----
(***************************************************************************)
(* astro-cdn-loader: the Vite transform that swaps configured imports for  *)
(* CDN URLs (vitePlugin.ts), the URL generator and version resolver        *)
(* (utils.ts) and the build-done HTML injector (InCommentsHtml).           *)
(*                                                                         *)
(* A JavaScript string is a sequence of one-character strings, so that the *)
(* regular expressions and the String methods of the source work on        *)
(* characters.  Indices are JavaScript's: 0-based, -1 for "not found".     *)
(* A regular expression is a sequence of alternatives, each a sequence of  *)
(* items, matched by backtracking in the engine's priority order.          *)
(*                                                                         *)
(* A value the source computes once and reads several times is the         *)
(* parameter of a helper operator (xxxWith, xxxAt, ...), so that it is     *)
(* evaluated once here too.                                                *)
(***************************************************************************)
EXTENDS Integers, Sequences, FiniteSets, TLC

VARIABLES
    options,       \* the options object handed to cdnVitePlugin / generateCdnUrl
    nodeModules,   \* installed manifests: package name -> package.json version field
    sources,       \* the modules the build hands to transform: [id, code]
    dist,          \* the output directory: entries [path, isFile, content]
    versionCache,  \* utils.ts versionCache: package name -> version
    lookups,       \* package name -> number of require.resolve calls made for it
    warnings,      \* package name -> number of console.warn calls made for it
    cdnUrls,       \* integration.ts cdnUrls: the Set<string> shared by all transforms
    results,       \* per source file: what its transform invocation returned
    passes,        \* per source file: the per-rule passes of its transform invocation
    rendered,      \* the HTML as the renderer left it (dist before InCommentsHtml)
    logged,        \* the logger calls of InCommentsHtml, in order
    phase          \* "transform" until astro:build:done has run, then "done"

vars == <<options, nodeModules, sources, dist, versionCache, lookups, warnings,
          cdnUrls, results, passes, rendered, logged, phase>>

----------------------------------------------------------------------------
(* JavaScript values *)

Null == <<"null">>
Undefined == <<"undefined">>

\* JavaScript truthiness of a string | null | undefined value.
Truthy(v) == v # Null /\ v # Undefined /\ v # <<>>

\* a || b
OrElse(a, b) == IF Truthy(a) THEN a ELSE b

Min2(a, b) == IF a <= b THEN a ELSE b
Max2(a, b) == IF a >= b THEN a ELSE b
SetMax(S) == CHOOSE x \in S : \A y \in S : y <= x
SetMin(S) == CHOOSE x \in S : \A y \in S : x <= y

\* String.prototype.substring(a, b) / slice(a, b) for 0 <= a, b <= length.
substring(s, a, b) == SubSeq(s, Min2(a, b) + 1, Max2(a, b))
slice(s, a, b) == SubSeq(s, a + 1, b)

StartsAt(s, pat, i) ==
    /\ i + Len(pat) <= Len(s)
    /\ \A k \in 1..Len(pat) : s[i + k] = pat[k]

Occurrences(s, pat) == {i \in 0..Len(s) : StartsAt(s, pat, i)}

FirstOf(hits) == IF hits = {} THEN -1 ELSE SetMin(hits)

\* String.prototype.indexOf(pat)
indexOf(s, pat) == FirstOf(Occurrences(s, pat))

endsWith(s, pat) == Len(pat) <= Len(s) /\ StartsAt(s, pat, Len(s) - Len(pat))

replaceAt(s, pat, rep, i) ==
    IF i = -1 THEN s
    ELSE slice(s, 0, i) \o rep \o slice(s, i + Len(pat), Len(s))

\* String.prototype.replace(pat, rep) with a string pattern: the first
\* occurrence only.  (No rep of the builds checked holds a "$", so no
\* replacement pattern applies.)
replace(s, pat, rep) == replaceAt(s, pat, rep, indexOf(s, pat))

RECURSIVE join(_)
join(parts) == IF parts = <<>> THEN <<>> ELSE Head(parts) \o join(Tail(parts))

----------------------------------------------------------------------------
(* Regular expressions *)

Lower == {"a","b","c","d","e","f","g","h","i","j","k","l","m",
          "n","o","p","q","r","s","t","u","v","w","x","y","z"}
Upper == {"A","B","C","D","E","F","G","H","I","J","K","L","M",
          "N","O","P","Q","R","S","T","U","V","W","X","Y","Z"}
Digit == {"0","1","2","3","4","5","6","7","8","9"}

In(S)  == [neg |-> FALSE, set |-> S]
Not(S) == [neg |-> TRUE,  set |-> S]
InClass(c, cls) == (c \in cls.set) # cls.neg

Whitespace == In({" ", "\t", "\n", "\r", "\f"})      \* \s
Dot        == Not({"\n", "\r"})                      \* .
PkgChar    == In(Lower \cup Upper \cup Digit \cup {"-", "@", ".", "_", "~"})
NotSlash   == Not({"/"})                             \* [^/]
NotQuote   == Not({"'", "\""})                       \* [^'"]
Quote      == In({"'", "\""})                        \* ['"]
NotStar    == Not({"*"})                             \* [^*]

One(cls)      == [q |-> "one",  cls |-> cls, g |-> 0, sub |-> <<>>]
Plus(cls)     == [q |-> "plus", cls |-> cls, g |-> 0, sub |-> <<>>]
Star(cls)     == [q |-> "star", cls |-> cls, g |-> 0, sub |-> <<>>]
LazyStar(cls) == [q |-> "lazy", cls |-> cls, g |-> 0, sub |-> <<>>]
Open(g)       == [q |-> "open",  cls |-> Dot, g |-> g, sub |-> <<>>]
Close(g)      == [q |-> "close", cls |-> Dot, g |-> g, sub |-> <<>>]
Opt(sub)      == [q |-> "opt",  cls |-> Dot, g |-> 0, sub |-> sub]
Eos           == [q |-> "eos",  cls |-> Dot, g |-> 0, sub |-> <<>>]
Lit(c)        == One(In({c}))

\* A run of literal characters.
Word(w)       == <<[q |-> "word", cls |-> Dot, g |-> 0, sub |-> w]>>

NoCaps == [x \in {} |-> <<-1, -1>>]
NoMatch == [ok |-> FALSE, end |-> -1, caps |-> NoCaps]

RECURSIVE RunLen(_, _, _)
RunLen(s, i, cls) ==
    IF i < Len(s) /\ InClass(s[i + 1], cls) THEN 1 + RunLen(s, i + 1, cls) ELSE 0

\* Group g starts or ends at position at.
SetCap(caps, g, side, at) ==
    [x \in DOMAIN caps \cup {g} |->
        IF x # g THEN caps[x]
        ELSE IF side = "open"
             THEN <<at, IF g \in DOMAIN caps THEN caps[g][2] ELSE -1>>
             ELSE <<IF g \in DOMAIN caps THEN caps[g][1] ELSE -1, at>>]

Marked(r, it, i) ==
    IF r.ok /\ it.q \in {"open", "close"}
    THEN [r EXCEPT !.caps = SetCap(@, it.g, it.q, i)]
    ELSE r

\* The result the engine reaches first among the tries <<n, result>> of a
\* quantified item taking n characters: a greedy quantifier tries the longest
\* run first, a lazy one the shortest.
Best(q, tries) ==
    LET good == {t \in tries : t[2].ok}
        ns   == {t[1] : t \in good}
        n    == IF q = "lazy" THEN SetMin(ns) ELSE SetMax(ns)
    IN  IF good = {} THEN NoMatch ELSE (CHOOSE t \in good : t[1] = n)[2]

\* An optional group is tried before it is skipped.
Prefer(a, b) == IF a.ok THEN a ELSE b

Least(q) == IF q = "plus" THEN 1 ELSE 0

\* The match of the item sequence at position i of s that a backtracking
\* engine finds first.
RECURSIVE ReMatch(_, _, _)
ReMatch(items, s, i) ==
    IF items = <<>> THEN [ok |-> TRUE, end |-> i, caps |-> NoCaps]
    ELSE
    LET it   == Head(items)
        rest == Tail(items)
    IN  CASE it.q = "one" ->
                IF i < Len(s) /\ InClass(s[i + 1], it.cls)
                THEN ReMatch(rest, s, i + 1) ELSE NoMatch
          [] it.q = "word" ->
                IF StartsAt(s, it.sub, i)
                THEN ReMatch(rest, s, i + Len(it.sub)) ELSE NoMatch
          [] it.q = "eos" ->
                IF i = Len(s) THEN ReMatch(rest, s, i) ELSE NoMatch
          [] it.q \in {"open", "close"} -> Marked(ReMatch(rest, s, i), it, i)
          [] it.q = "opt" -> Prefer(ReMatch(it.sub \o rest, s, i), ReMatch(rest, s, i))
          [] it.q \in {"plus", "star", "lazy"} ->
                Best(it.q, {<<n, ReMatch(rest, s, i + n)>> :
                                n \in Least(it.q)..RunLen(s, i, it.cls)})

\* match[g]: the text of capture group g, undefined when it took no part.
Group(m, s, g) ==
    IF g \in DOMAIN m.caps THEN slice(s, m.caps[g][1], m.caps[g][2]) ELSE Undefined

\* The first alternative of re that matches at position p.
RECURSIVE MatchAt(_, _, _)
MatchAt(re, s, p) ==
    IF re = <<>> THEN NoMatch
    ELSE Prefer(ReMatch(Head(re), s, p), MatchAt(Tail(re), s, p))

execFound(p, m) == [found |-> TRUE, index |-> p, end |-> m.end, m |-> m]

execAt(re, s, p) ==
    IF p = -1 THEN [found |-> FALSE, index |-> -1, end |-> 0, m |-> NoMatch]
    ELSE execFound(p, MatchAt(re, s, p))

\* RegExp.prototype.exec from lastIndex: the leftmost match, or found = FALSE.
exec(re, s, lastIndex) ==
    execAt(re, s, FirstOf({p \in lastIndex..Len(s) : MatchAt(re, s, p).ok}))

\* matchAll of a global regular expression: every match, left to right, each
\* search starting where the previous match ended.
RECURSIVE matchAll(_, _, _)
matchAllFrom(re, s, x) ==
    IF ~x.found THEN <<>>
    ELSE <<x>> \o matchAll(re, s, IF x.end = x.index THEN x.end + 1 ELSE x.end)

matchAll(re, s, lastIndex) == matchAllFrom(re, s, exec(re, s, lastIndex))

----------------------------------------------------------------------------
(* utils.ts *)

S_pkg     == <<"{","p","k","g","}">>
S_ver     == <<"{","v","e","r","}">>
S_path    == <<"{","p","a","t","h","}">>
S_braces  == <<"{","}">>
S_star    == <<"*">>
S_index   == <<"i","n","d","e","x",".","c","s","s">>
S_head    == <<"<","/","h","e","a","d",">">>
S_html    == <<".","h","t","m","l">>

\* /\s*\/\*\s*(<[^*]+>)\s*\*\/\s*/g
commentTagRegex ==
    << <<Star(Whitespace), Lit("/"), Lit("*"), Star(Whitespace),
         Open(1), Lit("<"), Plus(NotStar), Lit(">"), Close(1),
         Star(Whitespace), Lit("*"), Lit("/"), Star(Whitespace)>> >>

\* The package.json that require.resolve(`${pkgName}/package.json`) finds:
\* no entry when resolution throws, Malformed when JSON.parse throws, else
\* the manifest's version field (Undefined when it has none).
Malformed == <<"malformed">>

Bump(f, k) ==
    [x \in DOMAIN f \cup {k} |->
        IF x = k THEN (IF k \in DOMAIN f THEN f[k] + 1 ELSE 1) ELSE f[x]]

\* versionCache.set(pkgName, version)
CacheSet(cache, pkgName, version) ==
    [x \in DOMAIN cache \cup {pkgName} |-> IF x = pkgName THEN version ELSE cache[x]]

\* The module state of utils.ts together with what the build observes of it.
ModuleState == [versionCache |-> versionCache, lookups |-> lookups, warnings |-> warnings]

\* The try block of resolvePkgVersion (lines 25-38): a require.resolve call,
\* then the warning of the catch block or the version of the manifest.
lookupVersion(pkgName, st) ==
    IF pkgName \notin DOMAIN nodeModules \/ nodeModules[pkgName] = Malformed
    THEN [ret |-> Null,
          st |-> [st EXCEPT !.lookups = Bump(@, pkgName), !.warnings = Bump(@, pkgName)]]
    ELSE IF Truthy(nodeModules[pkgName])
         THEN [ret |-> nodeModules[pkgName],
               st |-> [st EXCEPT !.lookups = Bump(@, pkgName),
                                 !.versionCache = CacheSet(@, pkgName, nodeModules[pkgName])]]
         ELSE [ret |-> Null, st |-> [st EXCEPT !.lookups = Bump(@, pkgName)]]

\* A cache that is never hit.
CacheHasNever(cache, pkgName) == FALSE

\* versionCache.has(pkgName)
CacheHas(cache, pkgName) == pkgName \in DOMAIN cache

\* resolvePkgVersion(pkgName): [ret, st].
resolvePkgVersion(pkgName, st) ==
    IF CacheHas(st.versionCache, pkgName)
    THEN [ret |-> OrElse(st.versionCache[pkgName], Null), st |-> st]
    ELSE lookupVersion(pkgName, st)

\* moduleConfig.name.replace(/[.+?^${}()|[\]\\]/g, "\\$&").replace(/\*/g, "([^/]+)")
\* as regular expression items: every character is a literal, every "*" a
\* capturing group ([^/]+); n is the number of the next group.
RECURSIVE namePattern(_, _)
namePattern(name, n) ==
    IF name = <<>> THEN <<>>
    ELSE IF Head(name) = "*"
         THEN <<Open(n), Plus(NotSlash), Close(n)>> \o namePattern(Tail(name), n + 1)
         ELSE <<Lit(Head(name))>> \o namePattern(Tail(name), n)

Count(s, c) == Cardinality({i \in 1..Len(s) : s[i] = c})

subpathGroup(n) == <<Opt(<<Lit("/"), Open(n), Star(Dot), Close(n)>>), Eos>>

\* new RegExp(`^${namePattern}(?:/(.*))?$`); "^" is the match at position 0.
nameRegex(name) == namePattern(name, 1) \o subpathGroup(Count(name, "*") + 1)

\* /@?\{ver\}/
verRegex == << <<Opt(<<Lit("@")>>)>> \o Word(S_ver) >>

\* importPath.match(regex)
matchName(importPath, moduleConfig) ==
    ReMatch(nameRegex(moduleConfig.name), importPath, 0)

\* The package name reconstructed from the wildcard capture match[1].
packageOf(match1, name) ==
    IF Truthy(match1) THEN replace(name, S_star, match1) ELSE name

\* The final path for the URL from match[2]: the subpath, "index.css" when
\* it is empty, then the rule's path template.
pathTemplate(path, finalPath) ==
    IF Truthy(path) /\ path # S_braces THEN replace(path, S_braces, finalPath)
    ELSE finalPath

finalPathOf(match2, path) == pathTemplate(path, OrElse(OrElse(match2, <<>>), S_index))

\* const { prodURL, lockVersion = true } = options
lockVersionOf(opts) == IF opts.lockVersion = <<>> THEN TRUE ELSE opts.lockVersion[1]

\* url.replace(/@?\{ver\}/, "")
stripVer(url, x) ==
    IF x.found THEN slice(url, 0, x.index) \o slice(url, x.end, Len(url)) ELSE url

putVersion(url, lockVersion, version) ==
    IF lockVersion /\ Truthy(version)
    THEN replace(url, S_ver, version)
    ELSE stripVer(url, exec(verRegex, url, 0))

\* The URL built from the template (lines 84-90).
buildUrl(prodURL, pkg, finalPath, lockVersion, version) ==
    putVersion(replace(replace(prodURL, S_pkg, pkg), S_path, finalPath),
               lockVersion, version)

\* A generator that goes on without a version.
LockFailsNever(lockVersion, version) == FALSE

\* lockVersion && !version
LockFails(lockVersion, version) == lockVersion /\ ~Truthy(version)

\* generateCdnUrl from line 78 on, resolved being what line 77 got.
generateResolved(opts, pkg, finalPath, resolved) ==
    IF LockFails(lockVersionOf(opts), resolved.ret)
    THEN [ret |-> Null, threw |-> FALSE, st |-> resolved.st]
    ELSE IF opts.prodURL = Undefined
         THEN [ret |-> Null, threw |-> TRUE, st |-> resolved.st]
         ELSE [ret |-> buildUrl(opts.prodURL, pkg, finalPath,
                                lockVersionOf(opts), resolved.ret),
               threw |-> FALSE, st |-> resolved.st]

\* const version = lockVersion ? resolvePkgVersion(pkg) : null
versionOf(opts, pkg, st) ==
    IF lockVersionOf(opts) THEN resolvePkgVersion(pkg, st) ELSE [ret |-> Null, st |-> st]

generateFor(opts, pkg, finalPath, st) ==
    generateResolved(opts, pkg, finalPath, versionOf(opts, pkg, st))

\* generateCdnUrl from line 62 on, m being the match of line 60.
generateMatched(importPath, opts, moduleConfig, st, m) ==
    IF ~m.ok THEN [ret |-> Null, threw |-> FALSE, st |-> st]
    ELSE generateFor(opts,
                     packageOf(Group(m, importPath, 1), moduleConfig.name),
                     finalPathOf(Group(m, importPath, 2), moduleConfig.path),
                     st)

\* generateCdnUrl(importPath, options, moduleConfig): [ret, threw, st]; threw
\* is the TypeError of calling .replace on an undefined prodURL.
generateCdnUrl(importPath, opts, moduleConfig, st) ==
    generateMatched(importPath, opts, moduleConfig, st,
                    matchName(importPath, moduleConfig))

\* findHtmlFiles(dirPath): the entries of the tree that are files named *.html,
\* in the order the walk meets them.
isHtmlFile(e) == e.isFile /\ endsWith(e.path, S_html)

findHtmlFiles(tree) == SelectSeq(tree, isHtmlFile)

----------------------------------------------------------------------------
(* vitePlugin.ts *)

S_import == <<"i","m","p","o","r","t">>
S_from   == <<"f","r","o","m">>

\* /\.(astro|svelte|vue|jsx|tsx|mdx?)$/
SourceExtensions ==
    { <<".","a","s","t","r","o">>, <<".","s","v","e","l","t","e">>,
      <<".","v","u","e">>, <<".","j","s","x">>, <<".","t","s","x">>,
      <<".","m","d">>, <<".","m","d","x">> }

isSourceFile(id) == \E ext \in SourceExtensions : endsWith(id, ext)

\* config.name.replace(/\*/g, "[a-zA-Z0-9-@._~]+") placed unescaped in the
\* source of the regular expression: "." stands for any character, "*" for the
\* character class, every other character of a rule name for itself.
RECURSIVE importPattern(_)
importPattern(name) ==
    IF name = <<>> THEN <<>>
    ELSE (IF Head(name) = "*" THEN <<Plus(PkgChar)>>
          ELSE IF Head(name) = "." THEN <<One(Dot)>>
          ELSE <<Lit(Head(name))>>) \o importPattern(Tail(name))

\* (NAME(?:/[^'"]*)?)['"]
quotedPath(name, g) ==
    <<Open(g)>> \o importPattern(name)
        \o <<Opt(<<Lit("/"), Star(NotQuote)>>), Close(g), One(Quote)>>

\* createImportRegex(config):
\*   import\s+.*?\s+from\s*['"](NAME(?:/[^'"]*)?)['"]|import\s*['"](NAME(?:/[^'"]*)?)['"]
createImportRegex(config) ==
    << Word(S_import) \o <<Plus(Whitespace), LazyStar(Dot), Plus(Whitespace)>>
         \o Word(S_from) \o <<Star(Whitespace), One(Quote)>> \o quotedPath(config.name, 1),
       Word(S_import) \o <<Star(Whitespace), One(Quote)>> \o quotedPath(config.name, 2) >>

\* A set that forgets what it held when a URL is added.
AddUrlOnly(urls, cdnUrl) == {cdnUrl}

\* cdnUrls.add(cdnUrl)
AddUrl(urls, cdnUrl) == urls \cup {cdnUrl}

\* The loop state next after the iteration for match x, regex.lastIndex moved
\* to the end of the match, with what the build can observe of the iteration.
iterated(acc, x, importPath, url, kept, next) ==
    [next EXCEPT !.reLastIndex = x.end,
                 !.events = Append(@,
                     [index |-> x.index, end |-> x.end, importPath |-> importPath,
                      url |-> url, kept |-> kept, built |-> next.currentCode,
                      urlsBefore |-> acc.cdnUrls, urlsAfter |-> next.cdnUrls])]

\* Lines 65-75: the loop state after generateCdnUrl returned gen (or threw).
afterGenerate(acc, x, importPath, before, match0, gen) ==
    IF gen.threw
    THEN iterated(acc, x, importPath, Null, FALSE,
                  [acc EXCEPT !.st = gen.st, !.threw = TRUE])
    ELSE IF Truthy(gen.ret)
    THEN iterated(acc, x, importPath, gen.ret, FALSE,
                  [acc EXCEPT !.currentCode = before, !.lastIndex = x.end,
                              !.st = gen.st, !.cdnUrls = AddUrl(@, gen.ret),
                              !.hasTransformed = TRUE])
    ELSE iterated(acc, x, importPath, Null, TRUE,
                  [acc EXCEPT !.currentCode = before \o match0, !.lastIndex = x.end,
                              !.st = gen.st])

\* Lines 62-63: const importPath = match[1] || match[2]; if (!importPath) continue
afterPath(moduleConfig, opts, acc, x, importPath, before, match0) ==
    IF ~Truthy(importPath)
    THEN iterated(acc, x, importPath, Null, FALSE, [acc EXCEPT !.currentCode = before])
    ELSE afterGenerate(acc, x, importPath, before, match0,
                       generateCdnUrl(importPath, opts, moduleConfig, acc.st))

\* One iteration of the while loop (lines 58-75) for the match x of text.
iteration(text, moduleConfig, opts, acc, x) ==
    afterPath(moduleConfig, opts, acc, x,
              OrElse(Group(x.m, text, 1), Group(x.m, text, 2)),
              acc.currentCode \o substring(text, acc.lastIndex, x.index),
              slice(text, x.index, x.end))

\* The while loop of transform for one rule (lines 57-76), from the loop state
\* acc = [currentCode, lastIndex, reLastIndex, cdnUrls, hasTransformed, st,
\* threw, events]; text is transformedCode, reLastIndex is regex.lastIndex.
RECURSIVE matchLoop(_, _, _, _, _)
matchLoopOn(text, regex, moduleConfig, opts, acc) ==
    IF acc.threw THEN acc ELSE matchLoop(text, regex, moduleConfig, opts, acc)

matchLoopAt(text, regex, moduleConfig, opts, acc, x) ==
    IF ~x.found THEN acc
    ELSE matchLoopOn(text, regex, moduleConfig, opts,
                     iteration(text, moduleConfig, opts, acc, x))

matchLoop(text, regex, moduleConfig, opts, acc) ==
    matchLoopAt(text, regex, moduleConfig, opts, acc, exec(regex, text, acc.reLastIndex))

\* A pass that scans the text transform was given, whatever earlier passes did.
ScannedOriginal(code, transformedCode) == code

\* The text a rule's pass scans (line 57: regex.exec(transformedCode)).
Scanned(code, transformedCode) == transformedCode

\* Lines 78-80 and the state of the for loop after rule i's pass over text.
afterPass(i, text, run, acc, out) ==
    [transformedCode |-> IF acc.threw THEN run.transformedCode ELSE out,
     cdnUrls |-> acc.cdnUrls, hasTransformed |-> acc.hasTransformed,
     st |-> acc.st, threw |-> acc.threw,
     passes |-> Append(run.passes,
                   [rule |-> i, input |-> text, threw |-> acc.threw,
                    output |-> IF acc.threw THEN text ELSE out,
                    events |-> acc.events])]

passEnd(i, text, run, acc) ==
    afterPass(i, text, run, acc,
              acc.currentCode \o substring(text, acc.lastIndex, Len(text)))

\* Rule i's pass (lines 46-80) over text.
pass(i, text, opts, run) ==
    passEnd(i, text, run,
            matchLoop(text, createImportRegex(opts.modules[i]), opts.modules[i], opts,
                [currentCode |-> <<>>, lastIndex |-> 0, reLastIndex |-> 0,
                 cdnUrls |-> run.cdnUrls, hasTransformed |-> run.hasTransformed,
                 st |-> run.st, threw |-> FALSE, events |-> <<>>]))

\* The for loop of transform over the rules (lines 45-81), from rule i on:
\* run = [transformedCode, cdnUrls, hasTransformed, st, threw, passes].
RECURSIVE ruleLoop(_, _, _, _)
ruleLoop(i, code, opts, run) ==
    IF i > Len(opts.modules) \/ run.threw THEN run
    ELSE ruleLoop(i + 1, code, opts,
                  pass(i, Scanned(code, run.transformedCode), opts, run))

\* What a transform invocation returns: null, { code, map: null }, or a throw.
Returned(kind, code) == [kind |-> kind, code |-> code]

transformEnd(run) ==
    [ret |-> IF run.threw THEN Returned("threw", <<>>)
             ELSE IF run.hasTransformed THEN Returned("code", run.transformedCode)
             ELSE Returned("null", <<>>),
     cdnUrls |-> run.cdnUrls, st |-> run.st, passes |-> run.passes]

\* cdnVitePlugin(options, cdnUrls).transform(code, id), with the plugin of an
\* empty modules list having no transform hook at all.
transform(code, id, opts, urls, st) ==
    IF Len(opts.modules) = 0 \/ ~isSourceFile(id)
    THEN [ret |-> Returned("null", <<>>), cdnUrls |-> urls, st |-> st, passes |-> <<>>]
    ELSE transformEnd(ruleLoop(1, code, opts,
                        [transformedCode |-> code, cdnUrls |-> urls,
                         hasTransformed |-> FALSE, st |-> st, threw |-> FALSE,
                         passes |-> <<>>]))

\* [...content.matchAll(commentTagRegex)].map((m) => m[1])
payloads(content, all) == [k \in 1..Len(all) |-> Group(all[k].m, content, 1)]

\* [...new Set(found)]: the distinct payloads, each where it is first met.
distinct(found) ==
    LET first == {k \in 1..Len(found) : \A j \in 1..(k - 1) : found[j] # found[k]}
        IsFirst(t) == t.k \in first
        kept == SelectSeq([k \in 1..Len(found) |-> [k |-> k, tag |-> found[k]]], IsFirst)
    IN  [k \in 1..Len(kept) |-> kept[k].tag]

tagsOf(content) == distinct(payloads(content, matchAll(commentTagRegex, content, 0)))

\* An injector that inserts after the </head> tag instead of before it.
injectAfterHead(entry, headEndIndex, tags) ==
    IF headEndIndex # -1
    THEN [content |-> slice(entry.content, 0, headEndIndex + Len(S_head)) \o join(tags)
                      \o slice(entry.content, headEndIndex + Len(S_head), Len(entry.content)),
          log |-> [level |-> "info", path |-> entry.path, n |-> Len(tags)]]
    ELSE [content |-> entry.content,
          log |-> [level |-> "warn", path |-> entry.path, n |-> 0]]

\* An injector without the headEndIndex !== -1 test: slice(0, -1) and
\* slice(-1) put the tags before the last character of a file with no </head>.
injectUnchecked(entry, headEndIndex, tags) ==
    IF headEndIndex # -1
    THEN [content |-> slice(entry.content, 0, headEndIndex) \o join(tags)
                      \o slice(entry.content, headEndIndex, Len(entry.content)),
          log |-> [level |-> "info", path |-> entry.path, n |-> Len(tags)]]
    ELSE [content |-> slice(entry.content, 0, Len(entry.content) - 1) \o join(tags)
                      \o slice(entry.content, Len(entry.content) - 1, Len(entry.content)),
          log |-> [level |-> "info", path |-> entry.path, n |-> Len(tags)]]

\* Lines 136-151: the content written back (unchanged when nothing is
\* written) and the logger call.
injectAt(entry, headEndIndex, tags) ==
    IF headEndIndex # -1
    THEN [content |-> slice(entry.content, 0, headEndIndex) \o join(tags)
                      \o slice(entry.content, headEndIndex, Len(entry.content)),
          log |-> [level |-> "info", path |-> entry.path, n |-> Len(tags)]]
    ELSE [content |-> entry.content,
          log |-> [level |-> "warn", path |-> entry.path, n |-> 0]]

\* The body of InCommentsHtml's loop for one file (lines 128-151).
injectFile(entry) ==
    injectAt(entry, indexOf(entry.content, S_head), tagsOf(entry.content))

injected(tree, done) ==
    [dist   |-> [k \in 1..Len(tree) |->
                    IF isHtmlFile(tree[k])
                    THEN [tree[k] EXCEPT !.content = done[k].content]
                    ELSE tree[k]],
     logged |-> LET IsHtml(d) == d.html
                    files == SelectSeq(done, IsHtml)
                IN  [k \in 1..Len(files) |-> files[k].log]]

\* InCommentsHtml({ dir, logger }): every HTML file of the tree, in order.
\* (readFileSync and writeFileSync succeed: the files are readable and writable.)
InCommentsHtml(tree) ==
    injected(tree,
        [k \in 1..Len(tree) |->
            IF isHtmlFile(tree[k])
            THEN [html |-> TRUE, content |-> injectFile(tree[k]).content,
                  log |-> injectFile(tree[k]).log]
            ELSE [html |-> FALSE, content |-> tree[k].content,
                  log |-> [level |-> "none", path |-> tree[k].path, n |-> 0]]])

----------------------------------------------------------------------------
(* integration.ts *)

\* optionsSchema: z.object({ prodUrl, lockVersion (default true), modules:
\* [{ name, path (default "") }] }); a key the schema does not name is
\* stripped, so the parsed options carry no prodURL.
optionsSchema(input) ==
    [prodUrl     |-> input.prodUrl,
     prodURL     |-> Undefined,
     lockVersion |-> IF input.lockVersion = <<>> THEN <<TRUE>> ELSE input.lockVersion,
     modules     |-> [k \in 1..Len(input.modules) |->
                        [name |-> input.modules[k].name,
                         path |-> IF input.modules[k].path = Undefined THEN <<>>
                                  ELSE input.modules[k].path]]]

----------------------------------------------------------------------------
(* The builds checked *)

\* https://cdn.example/{pkg}@{ver}/{path}
T_example ==
    <<"h","t","t","p","s",":","/","/","c","d","n",".","e","x","a","m","p","l",
      "e","/","{","p","k","g","}","@","{","v","e","r","}","/","{","p","a","t",
      "h","}">>
\* //c/{pkg}@{ver}/{path}?{pkg}@{ver}
T_twice ==
    <<"/","/","c","/","{","p","k","g","}","@","{","v","e","r","}","/","{","p",
      "a","t","h","}","?","{","p","k","g","}","@","{","v","e","r","}">>
\* pkg-x
N_pkgx == <<"p","k","g","-","x">>
\* @scope/*
N_scope == <<"@","s","c","o","p","e","/","*">>
\* a
N_a == <<"a">>
\* a/*
N_aStar == <<"a","/","*">>
\* b.c
N_dot == <<"b",".","c">>
\* bxc
N_bxc == <<"b","x","c">>
\* dist/{}
P_dist == <<"d","i","s","t","/","{","}">>
\* css/{}
P_css == <<"c","s","s","/","{","}">>
\* @scope/pkgA
K_scopeA == <<"@","s","c","o","p","e","/","p","k","g","A">>
\* a/b
K_ab == <<"a","/","b">>
\* 2.1.0
V_210 == <<"2",".","1",".","0">>
\* 1.0.0
V_100 == <<"1",".","0",".","0">>
\* 3.0.0
V_300 == <<"3",".","0",".","0">>
\* 1.2.3
V_123 == <<"1",".","2",".","3">>
\* a.astro
Id_a == <<"a",".","a","s","t","r","o">>
\* b.tsx
Id_b == <<"b",".","t","s","x">>
\* c.vue
Id_c == <<"c",".","v","u","e">>
\* d.mdx
Id_d == <<"d",".","m","d","x">>
\* e.md
Id_e == <<"e",".","m","d">>
\* f.ts
Id_f == <<"f",".","t","s">>
\* import "pkg-x/theme.css";
Code_a ==
    <<"i","m","p","o","r","t"," ","\"","p","k","g","-","x","/","t","h","e",
      "m","e",".","c","s","s","\"",";">>
\* import x from '@scope/pkgA/file.css'\nimport "@scope/pkgA"
Code_b ==
    <<"i","m","p","o","r","t"," ","x"," ","f","r","o","m"," ","'","@","s","c",
      "o","p","e","/","p","k","g","A","/","f","i","l","e",".","c","s","s","'",
      "\n","i","m","p","o","r","t"," ","\"","@","s","c","o","p","e","/","p",
      "k","g","A","\"">>
\* import "a/b/c.css";
Code_c ==
    <<"i","m","p","o","r","t"," ","\"","a","/","b","/","c",".","c","s","s",
      "\"",";">>
\* import "a/b/c.css"; import a from "a"
Code_d ==
    <<"i","m","p","o","r","t"," ","\"","a","/","b","/","c",".","c","s","s",
      "\"",";"," ","i","m","p","o","r","t"," ","a"," ","f","r","o","m"," ",
      "\"","a","\"">>
\* x import "" y import '/z' import "bxc"
Code_e ==
    <<"x"," ","i","m","p","o","r","t"," ","\"","\""," ","y"," ","i","m","p",
      "o","r","t"," ","'","/","z","'"," ","i","m","p","o","r","t"," ","\"",
      "b","x","c","\"">>
\* index.html
H_index == <<"i","n","d","e","x",".","h","t","m","l">>
\* p/x.html
H_page == <<"p","/","x",".","h","t","m","l">>
\* y.html
H_late == <<"y",".","h","t","m","l">>
\* d.html
H_dir == <<"d",".","h","t","m","l">>
\* <head>/* <a> */\n/*<b>*/ /* <a> */</head><body></head></body>
Html_index ==
    <<"<","h","e","a","d",">","/","*"," ","<","a",">"," ","*","/","\n","/",
      "*","<","b",">","*","/"," ","/","*"," ","<","a",">"," ","*","/","<","/",
      "h","e","a","d",">","<","b","o","d","y",">","<","/","h","e","a","d",">",
      "<","/","b","o","d","y",">">>
\* <body>/* <a> */</body>
Html_page ==
    <<"<","b","o","d","y",">","/","*"," ","<","a",">"," ","*","/","<","/","b",
      "o","d","y",">">>
\* <head>/* </head> */</head>
Html_late ==
    <<"<","h","e","a","d",">","/","*"," ","<","/","h","e","a","d",">"," ","*",
      "/","<","/","h","e","a","d",">">>

\* The number of source files, and of output directory entries, of a build.
MaxSources == 2
MaxEntries == 2

Templates == {T_example, T_twice}

Rule(name, path) == [name |-> name, path |-> path]

RuleLists ==
    { <<Rule(N_pkgx, P_dist), Rule(N_scope, Undefined)>>,
      <<Rule(N_a, <<>>), Rule(N_aStar, S_braces), Rule(N_dot, <<>>), Rule(N_bxc, P_css)>>,
      <<Rule(<<>>, <<>>), Rule(N_pkgx, <<>>)>>,
      <<>> }

\* What the user writes in astro.config for the integration.
UserConfigs ==
    [prodUrl : {T_example}, lockVersion : {<<>>, <<FALSE>>}, modules : RuleLists \ {<<>>}]

\* What a caller of cdnVitePlugin passes (CDNPluginOptions).
PluginOptions ==
    [prodUrl : {Undefined}, prodURL : Templates,
     lockVersion : {<<>>, <<TRUE>>, <<FALSE>>}, modules : RuleLists]

OptionSet == {optionsSchema(u) : u \in UserConfigs} \cup PluginOptions

Installs ==
    { (N_pkgx :> V_210) @@ (K_scopeA :> V_100) @@ (K_ab :> V_300),
      (N_pkgx :> Undefined) @@ (K_scopeA :> Malformed) @@ (N_a :> V_123) }

SourcePool ==
    << [id |-> Id_a, code |-> Code_a], [id |-> Id_b, code |-> Code_b],
       [id |-> Id_c, code |-> Code_c], [id |-> Id_d, code |-> Code_d],
       [id |-> Id_e, code |-> Code_e], [id |-> Id_f, code |-> Code_a] >>

EntryPool ==
    << [path |-> H_index, isFile |-> TRUE,  content |-> Html_index],
       [path |-> H_page,  isFile |-> TRUE,  content |-> Html_page],
       [path |-> H_late,  isFile |-> TRUE,  content |-> Html_late],
       [path |-> H_dir,   isFile |-> FALSE, content |-> <<>>] >>

Windows(pool, n) ==
    {SubSeq(pool, k, k + n - 1) : k \in 1..(Len(pool) - Min2(n, Len(pool)) + 1)}

NotRun == Returned("notrun", <<>>)

Init ==
    /\ options \in OptionSet
    /\ nodeModules \in Installs
    /\ sources \in Windows(SourcePool, MaxSources)
    /\ dist \in Windows(EntryPool, MaxEntries)
    /\ rendered = dist
    /\ versionCache = [x \in {} |-> <<>>]
    /\ lookups = [x \in {} |-> 0]
    /\ warnings = [x \in {} |-> 0]
    /\ cdnUrls = {}
    /\ results = [f \in DOMAIN sources |-> NotRun]
    /\ passes = [f \in DOMAIN sources |-> <<>>]
    /\ logged = <<>>
    /\ phase = "transform"

transformed(f, t) ==
    /\ results' = [results EXCEPT ![f] = t.ret]
    /\ passes' = [passes EXCEPT ![f] = t.passes]
    /\ cdnUrls' = t.cdnUrls
    /\ versionCache' = t.st.versionCache
    /\ lookups' = t.st.lookups
    /\ warnings' = t.st.warnings

\* The build hands source file f to the plugin's transform hook.
Transform(f) ==
    /\ phase = "transform"
    /\ results[f] = NotRun
    /\ transformed(f, transform(sources[f].code, sources[f].id, options, cdnUrls, ModuleState))
    /\ UNCHANGED <<options, nodeModules, sources, dist, rendered, logged, phase>>

written(r) ==
    /\ dist' = r.dist
    /\ logged' = r.logged

\* astro:build:done, once every transform has returned.
BuildDone ==
    /\ phase = "transform"
    /\ \A f \in DOMAIN sources : results[f].kind \in {"null", "code"}
    /\ written(InCommentsHtml(dist))
    /\ phase' = "done"
    /\ UNCHANGED <<options, nodeModules, sources, rendered, versionCache, lookups,
                   warnings, cdnUrls, results, passes>>

Next ==
    \/ \E f \in DOMAIN sources : Transform(f)
    \/ BuildDone

Spec == Init /\ [][Next]_vars


----------------------------------------------------------------------------
(* Properties *)

\* The iterations of the import loop the build has run so far: file f, pass p
\* of that file's transform, k-th match of the pass.
RunEvents ==
    UNION { UNION { {<<f, p, k>> : k \in 1..Len(passes[f][p].events)}
                    : p \in 1..Len(passes[f]) }
            : f \in DOMAIN sources }

\* pat occurs in s.
includes(s, pat) == Occurrences(s, pat) # {}

passOf(t) == passes[t[1]][t[2]]
eventOf(t) == passOf(t).events[t[3]]
ruleOf(t) == options.modules[passOf(t).rule]
statementOf(t) == slice(passOf(t).input, eventOf(t).index, eventOf(t).end)
nameMatchOf(t) == matchName(eventOf(t).importPath, ruleOf(t))
pkgOf(t) == packageOf(Group(nameMatchOf(t), eventOf(t).importPath, 1), ruleOf(t).name)

\* The iterations that called generateCdnUrl with a path the rule's name
\* pattern matches.
Generated == {t \in RunEvents : Truthy(eventOf(t).importPath) /\ nameMatchOf(t).ok}

Resolvable(pkg) ==
    /\ pkg \in DOMAIN nodeModules
    /\ nodeModules[pkg] # Malformed
    /\ Truthy(nodeModules[pkg])

\* s with every occurrence of pat replaced by rep, left to right.
RECURSIVE Substituted(_, _, _)
Substituted(s, pat, rep) ==
    IF s = <<>> \/ pat = <<>> THEN s
    ELSE IF StartsAt(s, pat, 0)
         THEN rep \o Substituted(SubSeq(s, Len(pat) + 1, Len(s)), pat, rep)
         ELSE <<Head(s)>> \o Substituted(Tail(s), pat, rep)

\* The URL template the options carry, under either spelling of the key.
templateOf(opts) == IF opts.prodUrl # Undefined THEN opts.prodUrl ELSE opts.prodURL

\* The part of an import path after the package name, "index.css" if none.
subpathOf(importPath, pkg) ==
    IF Len(importPath) > Len(pkg) + 1
    THEN SubSeq(importPath, Len(pkg) + 2, Len(importPath))
    ELSE S_index

ruledPath(path, subpath) ==
    IF Truthy(path) THEN Substituted(path, S_braces, subpath) ELSE subpath

\* The URL with every placeholder of the template substituted.
SubstitutedUrl(t) ==
    Substituted(
        Substituted(
            Substituted(templateOf(options), S_pkg, pkgOf(t)),
            S_ver, nodeModules[pkgOf(t)]),
        S_path, ruledPath(ruleOf(t).path, subpathOf(eventOf(t).importPath, pkgOf(t))))

\* import "path" with no bindings
SideEffect(t) ==
    ReMatch(Word(S_import) \o <<Star(Whitespace), One(Quote)>>, statementOf(t), 0).ok

\* C1: with options parsed by the integration's schema, a side-effect import
\* of a recognized source file whose path matches a rule and whose package
\* version resolves is deleted from the returned code, and cdnUrls contains
\* the template with {pkg}, {ver} and {path} substituted by the package name,
\* the resolved version and the rule's path template applied to the subpath.
C1_SchemaImportSwapped ==
    \A t \in Generated :
        ( /\ options.prodUrl # Undefined
          /\ SideEffect(t)
          /\ lockVersionOf(options)
          /\ Resolvable(pkgOf(t)) )
        => /\ results[t[1]].kind = "code"
           /\ ~includes(results[t[1]].code, statementOf(t))
           /\ eventOf(t).url = SubstitutedUrl(t)
           /\ SubstitutedUrl(t) \in cdnUrls

HtmlEntries == {k \in 1..Len(rendered) : isHtmlFile(rendered[k])}
HasHead(k) == \E h \in 0..Len(rendered[k].content) : StartsAt(rendered[k].content, S_head, h)

Blank == {" ", "\t", "\n", "\r", "\f"}

\* text is a marker comment of content: a comment whose body is one payload.
IsPayload(content, tag) ==
    /\ Len(tag) >= 3
    /\ Head(tag) = "<"
    /\ tag[Len(tag)] = ">"
    /\ \A i \in 1..Len(tag) : tag[i] # "*"
    /\ \E i, j, e \in 0..Len(content) :
          /\ StartsAt(content, <<"/", "*">>, i)
          /\ StartsAt(content, tag, j)
          /\ StartsAt(content, <<"*", "/">>, e)
          /\ \A x \in (i + 3)..j : content[x] \in Blank
          /\ \A x \in (j + Len(tag) + 1)..e : content[x] \in Blank

\* C3: after the injector has run, an HTML file that contains </head> is its
\* original content with the distinct marker payloads of that same file, each
\* once, inserted right before the first </head>; nothing else differs, and
\* the inserted text is a function of the file alone, not of cdnUrls.
C3_InjectedBeforeHead ==
    phase = "done" =>
        \A k \in HtmlEntries : HasHead(k) =>
            \E h \in 0..Len(rendered[k].content) :
                /\ StartsAt(rendered[k].content, S_head, h)
                /\ \A j \in 0..(h - 1) : ~StartsAt(rendered[k].content, S_head, j)
                /\ dist[k].content =
                       SubSeq(rendered[k].content, 1, h)
                       \o join(tagsOf(rendered[k].content))
                       \o SubSeq(rendered[k].content, h + 1, Len(rendered[k].content))
                /\ dist[k].path = rendered[k].path
                /\ \A a, b \in 1..Len(tagsOf(rendered[k].content)) :
                       /\ IsPayload(rendered[k].content, tagsOf(rendered[k].content)[a])
                       /\ a # b => tagsOf(rendered[k].content)[a] # tagsOf(rendered[k].content)[b]

C3_Witness ==
    /\ phase = "done"
    /\ \E k \in HtmlEntries :
          /\ HasHead(k)
          /\ Len(tagsOf(rendered[k].content)) >= 2
          /\ Len(payloads(rendered[k].content, matchAll(commentTagRegex, rendered[k].content, 0)))
                > Len(tagsOf(rendered[k].content))
          /\ Cardinality(Occurrences(rendered[k].content, S_head)) >= 2
          /\ dist[k].content # rendered[k].content

\* The position of HTML file k among the HTML files of the tree.
logIndex(k) == Cardinality({j \in HtmlEntries : j <= k})

\* C4: for an HTML file without </head> the injector logs a warning naming
\* the file and leaves the file as it was, and every HTML file after it is
\* still processed: logged, and injected when it has a </head>.
C4_NoHeadSkipped ==
    phase = "done" =>
        /\ Len(logged) = Cardinality(HtmlEntries)
        /\ \A k \in HtmlEntries : ~HasHead(k) =>
              /\ logged[logIndex(k)].level = "warn"
              /\ logged[logIndex(k)].path = rendered[k].path
              /\ dist[k] = rendered[k]
              /\ \A j \in HtmlEntries : j > k =>
                    /\ logged[logIndex(j)].path = rendered[j].path
                    /\ HasHead(j) =>
                          /\ logged[logIndex(j)].level = "info"
                          /\ Len(dist[j].content) =
                                Len(rendered[j].content) + Len(join(tagsOf(rendered[j].content)))

C4_Witness ==
    /\ phase = "done"
    /\ \E k \in HtmlEntries : \E j \in HtmlEntries :
          /\ ~HasHead(k)
          /\ tagsOf(rendered[k].content) # <<>>
          /\ logged[logIndex(k)].level = "warn"
          /\ j > k
          /\ HasHead(j)
          /\ dist[j].content # rendered[j].content

\* C5: with lockVersion false, no URL generateCdnUrl returns contains a
\* {ver} placeholder, whatever the template, the import path and the rule.
C5_NoVerPlaceholder ==
    \A t \in Generated :
        (~lockVersionOf(options) /\ eventOf(t).url # Null)
        => ~includes(eventOf(t).url, S_ver)

\* C6: for an import path matching a rule's pattern with a wildcard capture,
\* the package name is the rule name with the capture in place of "*", and the
\* returned URL has that name at every place where the template has {pkg}.
C6_PkgEverywhere ==
    \A t \in Generated :
        (includes(ruleOf(t).name, S_star) /\ eventOf(t).url # Null)
        => /\ pkgOf(t) = Substituted(ruleOf(t).name, S_star,
                                     Group(nameMatchOf(t), eventOf(t).importPath, 1))
           /\ eventOf(t).url =
                 buildUrl(Substituted(templateOf(options), S_pkg, pkgOf(t)),
                          pkgOf(t),
                          finalPathOf(Group(nameMatchOf(t), eventOf(t).importPath, 2),
                                      ruleOf(t).path),
                          lockVersionOf(options),
                          IF lockVersionOf(options) THEN nodeModules[pkgOf(t)] ELSE Null)

\* The calls of resolvePkgVersion for package pkg so far.
CallsFor(pkg) == {t \in Generated : lockVersionOf(options) /\ pkgOf(t) = pkg}

\* C7 (as stated): the manifest lookup happens at most once per package name,
\* a failed lookup being cached too, with no second lookup and no second
\* warning for the package.
C7_LookupOnce ==
    \A pkg \in DOMAIN lookups :
        /\ lookups[pkg] <= 1
        /\ pkg \in DOMAIN warnings => warnings[pkg] <= 1

\* C7 (amended): a successful lookup happens once per package name, its
\* result is cached and is what the package's manifest says from then on; a
\* failed lookup is not cached: every call for such a package looks up again,
\* and warns again when the manifest is missing or malformed.
C7_SuccessCachedOnly ==
    \A pkg \in DOMAIN lookups :
        IF Resolvable(pkg)
        THEN /\ lookups[pkg] = 1
             /\ pkg \in DOMAIN versionCache
             /\ versionCache[pkg] = nodeModules[pkg]
             /\ pkg \notin DOMAIN warnings
        ELSE /\ pkg \notin DOMAIN versionCache
             /\ lookups[pkg] = Cardinality(CallsFor(pkg))
             /\ (pkg \notin DOMAIN nodeModules \/ nodeModules[pkg] = Malformed)
                   => (pkg \in DOMAIN warnings /\ warnings[pkg] = lookups[pkg])

C7_Witness ==
    /\ \E pkg \in DOMAIN lookups :
          /\ Resolvable(pkg)
          /\ Cardinality(CallsFor(pkg)) >= 2
          /\ lookups[pkg] = 1
    /\ \E pkg \in DOMAIN lookups :
          /\ ~Resolvable(pkg)
          /\ lookups[pkg] >= 2

\* What file f's transform gives in a build where it is the first to run.
alone(f) ==
    transform(sources[f].code, sources[f].id, options, {},
              [versionCache |-> [x \in {} |-> <<>>],
               lookups |-> [x \in {} |-> 0],
               warnings |-> [x \in {} |-> 0]])

\* C8: whatever the order in which the files' transforms run, no step removes
\* an element of cdnUrls, each file's result is the one it has when it runs
\* first, and cdnUrls holds exactly the URLs of the files that have run.
C8_OrderIndependent ==
    /\ [][cdnUrls \subseteq cdnUrls']_vars
    /\ [](/\ \A f \in DOMAIN sources :
                results[f] # NotRun => results[f] = alone(f).ret
          /\ cdnUrls = UNION {alone(f).cdnUrls : f \in {g \in DOMAIN sources : results[g] # NotRun}})

C8_Witness ==
    /\ phase = "done"
    /\ \E f, g \in DOMAIN sources :
          /\ alone(f).cdnUrls \ alone(g).cdnUrls # {}
          /\ alone(g).cdnUrls \ alone(f).cdnUrls # {}
          /\ results[f].kind = "code"
          /\ results[g].kind = "code"

\* The text of a pass's input outside the statements the pass removed.
remaining(p) ==
    LET gone == {i \in 1..Len(p.input) :
                    \E k \in 1..Len(p.events) :
                        /\ p.events[k].url # Null
                        /\ p.events[k].index < i
                        /\ i <= p.events[k].end}
        Stays(c) == c.i \notin gone
        chars == SelectSeq([i \in 1..Len(p.input) |-> [i |-> i, c |-> p.input[i]]], Stays)
    IN  [i \in 1..Len(chars) |-> chars[i].c]

\* C9: what transform returns is its input with exactly the import statements
\* whose URL generation succeeded removed, every other character once and in
\* order, and it returns null exactly when no statement was removed.
C9_OnlyImportsRemoved ==
    \A f \in DOMAIN sources :
        results[f].kind \in {"null", "code"} =>
            /\ \A p \in 1..Len(passes[f]) : passes[f][p].output = remaining(passes[f][p])
            /\ results[f].kind = "null" <=>
                  (\A p \in 1..Len(passes[f]) : \A k \in 1..Len(passes[f][p].events) :
                        passes[f][p].events[k].url = Null)

\* The files with a single import statement, and what the rules did with it.
OneImport(f) ==
    /\ isSourceFile(sources[f].id)
    /\ results[f] # NotRun
    /\ Cardinality(Occurrences(sources[f].code, S_import)) = 1
    /\ \A p \in 1..Len(passes[f]) : Len(passes[f][p].events) <= 1

\* The rules whose import pattern matches file f's statement.
matching(f) ==
    {i \in 1..Len(options.modules) :
        exec(createImportRegex(options.modules[i]), sources[f].code, 0).found}

handled(f) == {passes[f][p].rule : p \in {q \in 1..Len(passes[f]) : passes[f][q].events # <<>>}}
removing(f) ==
    {passes[f][p].rule : p \in {q \in 1..Len(passes[f]) :
        \E k \in 1..Len(passes[f][q].events) : passes[f][q].events[k].url # Null}}

stopping(f) ==
    removing(f) \cup {passes[f][p].rule : p \in {q \in 1..Len(passes[f]) : passes[f][q].threw}}

\* C10 (as stated): when several rules match an import statement, only the
\* first of them in the configured order handles it; no later rule removes
\* the import or records a URL for it.
C10_FirstMatchOnly ==
    \A f \in DOMAIN sources :
        (OneImport(f) /\ matching(f) # {} /\ results[f].kind \in {"null", "code"}) =>
            /\ handled(f) \subseteq {SetMin(matching(f))}
            /\ removing(f) \subseteq {SetMin(matching(f))}

\* C10 (amended): the matching rules handle an import statement in the
\* configured order until one of them gets a URL generated (or the generation
\* throws): that rule alone removes the import and records its URL, no later
\* rule sees the import, and each matching rule before it got no URL and
\* left the import in place.
C10_FirstSuccessWins ==
    \A f \in DOMAIN sources :
        OneImport(f) =>
            /\ handled(f) =
                  {i \in matching(f) : \A j \in matching(f) : j < i => j \notin stopping(f)}
            /\ removing(f) \subseteq handled(f)
            /\ Cardinality(removing(f)) <= 1
            /\ \A i \in removing(f) : \A j \in handled(f) : j <= i

C10_Witness ==
    \E f \in DOMAIN sources :
        /\ OneImport(f)
        /\ Cardinality(matching(f)) >= 2
        /\ SetMin(matching(f)) \in handled(f) \ removing(f)
        /\ removing(f) # {}
        /\ results[f].kind = "code"
====
